---- MODULE Spec2Model ----
(***************************************************************************)
(* A model of the go-async batch runner (src/async.go): the fluent builder *)
(* (Task, WithTimeout), the executor Go with its errgroup of one goroutine *)
(* per task, the contexts that govern it (parent, optional timeout child,  *)
(* errgroup child) and the reflection-based result assignment.             *)
(***************************************************************************)
EXTENDS Integers, Sequences, FiniteSets

\* The largest number of Task registrations of one batch.
MaxTasks == 2

\* The caller's variables a destination pointer can point to.
Locs == 1 .. MaxTasks

\* The durations handed to WithTimeout: 0 has expired when the context is made.
Durations == {0, 1}

NoTimeout == -1

VARIABLES
    funcs,      \* a.funcs: the registered holders, in registration order
    timeout,    \* a.timeout: NoTimeout (nil) or the duration
    phase,      \* "build" | "run" | "returned": where the caller of Go is
    launched,   \* how many iterations of the loop of Go have run
    pc,         \* per unit: where the goroutine of g.Go is
    res,        \* per unit: the value its fn returned
    err,        \* per unit: the error its fn returned
    unitErr,    \* per unit: the error its closure returns to the errgroup
    slot,       \* the content of each of the caller's variables
    parentDone, \* the context handed to Go has been cancelled
    tctxErr,    \* Err() of the context.WithTimeout child ("none": not done)
    gctxErr,    \* Err() of the errgroup's context ("none": not done)
    firstErr,   \* g.err of the errgroup
    retErr,     \* what Go returned
    preCancelled, \* history: the context was already cancelled when Go was called
    late,       \* history, per unit: the timer had fired when its fn returned
    firstFail,  \* history: the unit whose failed closure finished first (0: none)
    seen,       \* history, per unit: ctx.Err() when its select ran
    calls,      \* history, per unit: how many times its fn was called
    regs,       \* history: the dest of every call of Task, in call order
    lastT       \* history: the argument of the last call of WithTimeout

vars == <<funcs, timeout, phase, launched, pc, res, err, unitErr, slot,
          parentDone, tctxErr, gctxErr, firstErr, retErr,
          preCancelled, late, firstFail, seen, calls, regs, lastT>>

\* The history variables, which no step of the program reads.
hist == <<preCancelled, late, firstFail, seen, calls, regs, lastT>>

----------------------------------------------------------------------------
(* Values, destinations and errors *)

\* An interface value: its dynamic type and which operation produced it.
Val(t, i) == [type |-> t, id |-> i]

NilVal == Val("nil", 0)

\* The Go zero value of a type.
Zero(t) == Val(t, 0)

\* What a data race of two multiword writes can leave in a variable.
Torn(t) == Val(t, -1)

\* The static type of each of the caller's variables.
LocType(l) == IF l % 2 = 1 THEN "int" ELSE "string"

\* dest, an `any`: a valid pointer, a typed nil pointer, the nil interface or a
\* value that is no pointer.
PtrTo(l) == [kind |-> "ptr", loc |-> l]

NilPtr == [kind |-> "nilptr", loc |-> 0]

NilIface == [kind |-> "nil", loc |-> 0]

NonPtr == [kind |-> "nonptr", loc |-> 0]

Dests == {PtrTo(l) : l \in Locs} \cup {NilPtr, NilIface, NonPtr}

\* An error value: the unit that made it, its kind and what it wraps.
Err(k, i, d) == [kind |-> k, task |-> i, detail |-> d]

NoErr == Err("none", 0, "")

OpErr(i) == Err("op", i, "")

\* What an operation can return, as fn of task i.
Results(i) == {NilVal, Val("int", i), Val("string", i)}

Errors(i) == {NoErr, OpErr(i)}

Units == 1 .. Len(funcs)

----------------------------------------------------------------------------
(* assignResult *)

\* AssignableTo, had the type check been left out.
AssignableTo_Any(t, u) == TRUE

\* reflect.Type.AssignableTo for the types of the model: identical types.
AssignableTo(t, u) == t = u

\* assignResult, had a nil pointer been rejected by the same test as a value
\* that is no pointer.
assignResult_OneTest(dest, r) ==
    IF dest.kind # "ptr" THEN "InvalidDestination"
    ELSE IF ~AssignableTo(r.type, LocType(dest.loc)) THEN "TypeMismatch"
    ELSE ""

\* The error assignResult(dest, r) returns ("" when it assigns).
assignResult(dest, r) ==
    IF dest.kind \notin {"ptr", "nilptr"} THEN "InvalidDestination"
    ELSE IF dest.kind = "nilptr" THEN "NullDestination"
    ELSE IF ~AssignableTo(r.type, LocType(dest.loc)) THEN "TypeMismatch"
    ELSE ""

----------------------------------------------------------------------------
(* The builder *)

Init ==
    /\ funcs = <<>>
    /\ timeout = NoTimeout
    /\ phase = "build"
    /\ launched = 0
    /\ pc = <<>>
    /\ res = <<>>
    /\ err = <<>>
    /\ unitErr = <<>>
    /\ slot = [l \in Locs |-> Zero(LocType(l))]
    /\ parentDone = FALSE
    /\ tctxErr = "none"
    /\ gctxErr = "none"
    /\ firstErr = NoErr
    /\ retErr = NoErr
    /\ preCancelled = FALSE
    /\ late = <<>>
    /\ firstFail = 0
    /\ seen = <<>>
    /\ calls = <<>>
    /\ regs = <<>>
    /\ lastT = NoTimeout

\* The holder Task appends; fun is the closure of this registration call.
asyncHolder(dest, f) == [dest |-> dest, fun |-> f]

Task(dest) ==
    /\ phase = "build"
    /\ Len(funcs) < MaxTasks
    /\ funcs' = Append(funcs, asyncHolder(dest, Len(funcs) + 1))
    /\ regs' = Append(regs, dest)
    /\ UNCHANGED <<timeout, phase, launched, pc, res, err, unitErr, slot,
                   parentDone, tctxErr, gctxErr, firstErr, retErr,
                   preCancelled, late, firstFail, seen, calls, lastT>>

\* WithTimeout, had it kept a timeout that is already set.
WithTimeout_KeepFirst(d) ==
    /\ phase = "build"
    /\ timeout' = IF timeout = NoTimeout THEN d ELSE timeout
    /\ lastT' = d
    /\ UNCHANGED <<funcs, phase, launched, pc, res, err, unitErr, slot,
                   parentDone, tctxErr, gctxErr, firstErr, retErr,
                   preCancelled, late, firstFail, seen, calls, regs>>

WithTimeout(d) ==
    /\ phase = "build"
    /\ timeout' = d
    /\ lastT' = d
    /\ UNCHANGED <<funcs, phase, launched, pc, res, err, unitErr, slot,
                   parentDone, tctxErr, gctxErr, firstErr, retErr,
                   preCancelled, late, firstFail, seen, calls, regs>>

----------------------------------------------------------------------------
(* The contexts *)

\* A context takes its first cancellation and keeps it.
FirstOf(old, new) == IF old = "none" THEN new ELSE old

\* Err() of the context.WithTimeout child when it is made: a cancelled parent
\* cancels it, a duration that is not positive has it expired.
WithTimeoutErr(pDone, d) ==
    IF pDone THEN "Canceled"
    ELSE IF d <= 0 THEN "DeadlineExceeded"
    ELSE "none"

\* WithContextErr, had the errgroup been made on context.Background().
WithContextErr_Background(pDone, tErr) == "none"

\* Err() of the errgroup's context when it is made, from the context it is
\* derived from: the timeout child if there is one, else the parent.
WithContextErr(pDone, tErr) ==
    IF timeout # NoTimeout THEN tErr
    ELSE IF pDone THEN "Canceled" ELSE "none"

\* The caller cancels the context it hands to Go; the cancellation reaches the
\* contexts derived from it.
CancelParent ==
    /\ phase \in {"build", "run"}
    /\ ~parentDone
    /\ parentDone' = TRUE
    /\ IF phase = "run"
       THEN /\ tctxErr' = IF timeout # NoTimeout
                          THEN FirstOf(tctxErr, "Canceled") ELSE tctxErr
            /\ gctxErr' = FirstOf(gctxErr, "Canceled")
       ELSE UNCHANGED <<tctxErr, gctxErr>>
    /\ UNCHANGED <<funcs, timeout, phase, launched, pc, res, err, unitErr,
                   slot, firstErr, retErr, hist>>

\* The timer of context.WithTimeout fires.
TimerFire ==
    /\ phase = "run"
    /\ timeout # NoTimeout
    /\ tctxErr = "none"
    /\ tctxErr' = "DeadlineExceeded"
    /\ gctxErr' = FirstOf(gctxErr, "DeadlineExceeded")
    /\ UNCHANGED <<funcs, timeout, phase, launched, pc, res, err, unitErr,
                   slot, parentDone, firstErr, retErr, hist>>

----------------------------------------------------------------------------
(* Go *)

\* Go up to the loop: the timeout context and the errgroup with its context.
GoCall ==
    /\ phase = "build"
    /\ phase' = "run"
    /\ LET tErr == IF timeout = NoTimeout THEN "none"
                   ELSE WithTimeoutErr(parentDone, timeout)
       IN /\ tctxErr' = tErr
          /\ gctxErr' = WithContextErr(parentDone, tErr)
    /\ launched' = 0
    /\ pc' = [i \in Units |-> "pending"]
    /\ res' = [i \in Units |-> NilVal]
    /\ err' = [i \in Units |-> NoErr]
    /\ unitErr' = [i \in Units |-> NoErr]
    /\ preCancelled' = parentDone
    /\ late' = [i \in Units |-> FALSE]
    /\ seen' = [i \in Units |-> "none"]
    /\ calls' = [i \in Units |-> 0]
    /\ UNCHANGED <<funcs, timeout, slot, parentDone, firstErr, retErr,
                   firstFail, regs, lastT>>

\* One iteration of the loop: asyncTask hands the closure to g.Go, which
\* starts its goroutine.
asyncTask ==
    /\ phase = "run"
    /\ launched < Len(funcs)
    /\ launched' = launched + 1
    /\ pc' = [pc EXCEPT ![launched + 1] = "spawned"]
    /\ UNCHANGED <<funcs, timeout, phase, res, err, unitErr, slot,
                   parentDone, tctxErr, gctxErr, firstErr, retErr, hist>>

\* FnCall, had the closure looked at ctx.Done() before calling fn.
FnCall_SkipIfDone(i) ==
    /\ phase = "run"
    /\ pc[i] = "spawned"
    /\ IF gctxErr # "none"
       THEN /\ pc' = [pc EXCEPT ![i] = "exiting"]
            /\ unitErr' = [unitErr EXCEPT ![i] = Err("cancelled", i, gctxErr)]
            /\ UNCHANGED calls
       ELSE /\ pc' = [pc EXCEPT ![i] = "running"]
            /\ calls' = [calls EXCEPT ![i] = @ + 1]
            /\ UNCHANGED unitErr
    /\ UNCHANGED <<funcs, timeout, phase, launched, res, err, slot,
                   parentDone, tctxErr, gctxErr, firstErr, retErr,
                   preCancelled, late, firstFail, seen, regs, lastT>>

\* The goroutine runs and calls fn.
FnCall(i) ==
    /\ phase = "run"
    /\ pc[i] = "spawned"
    /\ pc' = [pc EXCEPT ![i] = "running"]
    /\ calls' = [calls EXCEPT ![i] = @ + 1]
    /\ UNCHANGED <<funcs, timeout, phase, launched, res, err, unitErr, slot,
                   parentDone, tctxErr, gctxErr, firstErr, retErr,
                   preCancelled, late, firstFail, seen, regs, lastT>>

\* AfterFn, had the closure ended in `return nil`.
AfterFn_NilReturn(i, r, e) ==
    LET dest == funcs[i].dest IN
    IF gctxErr # "none" THEN Err("cancelled", i, gctxErr)
    ELSE IF dest # NilIface /\ r # NilVal
         THEN IF assignResult(dest, r) # ""
              THEN Err("assign", i, assignResult(dest, r))
              ELSE Err("write", i, "")
         ELSE NoErr

\* AfterFn, had the closure returned the error of fn before its select.
AfterFn_ErrFirst(i, r, e) ==
    LET dest == funcs[i].dest IN
    IF e # NoErr THEN e
    ELSE IF gctxErr # "none" THEN Err("cancelled", i, gctxErr)
    ELSE IF dest # NilIface /\ r # NilVal
         THEN IF assignResult(dest, r) # ""
              THEN Err("assign", i, assignResult(dest, r))
              ELSE Err("write", i, "")
         ELSE e

\* AfterFn, had the guard of the assignment let through pointers only.
AfterFn_PtrOnly(i, r, e) ==
    LET dest == funcs[i].dest IN
    IF gctxErr # "none" THEN Err("cancelled", i, gctxErr)
    ELSE IF dest.kind \in {"ptr", "nilptr"} /\ r # NilVal
         THEN IF assignResult(dest, r) # ""
              THEN Err("assign", i, assignResult(dest, r))
              ELSE Err("write", i, "")
         ELSE e

\* AfterFn, had the guard of the assignment not tested res against nil.
AfterFn_NoNilGuard(i, r, e) ==
    LET dest == funcs[i].dest IN
    IF gctxErr # "none" THEN Err("cancelled", i, gctxErr)
    ELSE IF dest # NilIface
         THEN IF assignResult(dest, r) # ""
              THEN Err("assign", i, assignResult(dest, r))
              ELSE Err("write", i, "")
         ELSE e

\* AfterFn, had the closure wrapped the error of fn.
AfterFn_Wrap(i, r, e) ==
    LET dest == funcs[i].dest IN
    IF gctxErr # "none" THEN Err("cancelled", i, gctxErr)
    ELSE IF dest # NilIface /\ r # NilVal
         THEN IF assignResult(dest, r) # ""
              THEN Err("assign", i, assignResult(dest, r))
              ELSE Err("write", i, "")
         ELSE IF e # NoErr THEN Err("op", i, "wrapped") ELSE e

\* AfterFn, had the closure handled the value before looking at ctx.Done().
AfterFn_AssignFirst(i, r, e) ==
    LET dest == funcs[i].dest IN
    IF dest # NilIface /\ r # NilVal
    THEN IF assignResult(dest, r) # ""
         THEN Err("assign", i, assignResult(dest, r))
         ELSE Err("write", i, "")
    ELSE IF gctxErr # "none" THEN Err("cancelled", i, gctxErr)
         ELSE e

\* What the closure does once fn returned (r, e), up to the write: the error it
\* returns, or kind "write" when destElem.Set is due. Cancellation comes first,
\* then the guard of the assignment and the checks of assignResult.
AfterFn(i, r, e) ==
    LET dest == funcs[i].dest IN
    IF gctxErr # "none" THEN Err("cancelled", i, gctxErr)
    ELSE IF dest # NilIface /\ r # NilVal
         THEN IF assignResult(dest, r) # ""
              THEN Err("assign", i, assignResult(dest, r))
              ELSE Err("write", i, "")
         ELSE e

\* fn returns (r, e); the closure runs its select on ctx.Done(), the guard and
\* the checks of assignResult. Nothing else reads r and e, so the steps are one.
FnReturn(i, r, e) ==
    /\ phase = "run"
    /\ pc[i] = "running"
    /\ res' = [res EXCEPT ![i] = r]
    /\ err' = [err EXCEPT ![i] = e]
    /\ IF AfterFn(i, r, e).kind = "write"
       THEN /\ pc' = [pc EXCEPT ![i] = "assigning"]
            /\ UNCHANGED unitErr
       ELSE /\ pc' = [pc EXCEPT ![i] = "exiting"]
            /\ unitErr' = [unitErr EXCEPT ![i] = AfterFn(i, r, e)]
    /\ late' = [late EXCEPT ![i] = (tctxErr = "DeadlineExceeded")]
    /\ seen' = [seen EXCEPT ![i] = gctxErr]
    /\ UNCHANGED <<funcs, timeout, phase, launched, slot, parentDone,
                   tctxErr, gctxErr, firstErr, retErr, preCancelled,
                   firstFail, calls, regs, lastT>>

\* Written, had Set been applied to a copy of the variable: nothing changes.
Written_Copy(S, l) == {slot[l]}

\* What variable l can hold after the writes of the units of S, made at once:
\* one of the values, or a mix of two values that take more than one word.
Written(S, l) ==
    {res[j] : j \in S}
        \cup (IF Cardinality(S) > 1 /\ LocType(l) = "string"
              THEN {Torn(LocType(l))} ELSE {})

\* destElem.Set(resVal) of the units of S, which all point to variable l, and
\* `return err`; more than one unit in S is a race of unsynchronised writes.
Assign(S, l) ==
    /\ phase = "run"
    /\ S # {}
    /\ \A j \in S : pc[j] = "assigning" /\ funcs[j].dest = PtrTo(l)
    /\ \E v \in Written(S, l) : slot' = [slot EXCEPT ![l] = v]
    /\ pc' = [j \in Units |-> IF j \in S THEN "exiting" ELSE pc[j]]
    /\ unitErr' = [j \in Units |-> IF j \in S THEN err[j] ELSE unitErr[j]]
    /\ UNCHANGED <<funcs, timeout, phase, launched, res, err, parentDone,
                   tctxErr, gctxErr, firstErr, retErr, hist>>

\* errOnce, had the group kept the last error instead of the first.
errOnce_Last(e) == IF e # NoErr THEN e ELSE firstErr

\* g.err after the closure of a unit returned e: errOnce keeps the first error.
errOnce(e) == IF e # NoErr /\ firstErr = NoErr THEN e ELSE firstErr

\* Exit, had a failed closure recorded its error and never told the group
\* that it is done.
Exit_Leak(i) ==
    /\ phase = "run"
    /\ pc[i] = "exiting"
    /\ pc' = [pc EXCEPT ![i] = IF unitErr[i] # NoErr THEN "leaked" ELSE "done"]
    /\ firstErr' = errOnce(unitErr[i])
    /\ gctxErr' = IF unitErr[i] # NoErr /\ firstErr = NoErr
                  THEN FirstOf(gctxErr, "Canceled") ELSE gctxErr
    /\ firstFail' = IF unitErr[i] # NoErr /\ firstFail = 0 THEN i ELSE firstFail
    /\ UNCHANGED <<funcs, timeout, phase, launched, res, err, unitErr, slot,
                   parentDone, tctxErr, retErr, preCancelled, late,
                   seen, calls, regs, lastT>>

\* Exit, had the group undone the writes of the batch on its first error.
Exit_Rollback(i) ==
    /\ phase = "run"
    /\ pc[i] = "exiting"
    /\ pc' = [pc EXCEPT ![i] = "done"]
    /\ firstErr' = errOnce(unitErr[i])
    /\ gctxErr' = IF unitErr[i] # NoErr /\ firstErr = NoErr
                  THEN FirstOf(gctxErr, "Canceled") ELSE gctxErr
    /\ firstFail' = IF unitErr[i] # NoErr /\ firstFail = 0 THEN i ELSE firstFail
    /\ slot' = IF unitErr[i] # NoErr /\ firstErr = NoErr
               THEN [l \in Locs |-> Zero(LocType(l))] ELSE slot
    /\ UNCHANGED <<funcs, timeout, phase, launched, res, err, unitErr,
                   parentDone, tctxErr, retErr, preCancelled, late,
                   seen, calls, regs, lastT>>

\* The closure has returned: the errgroup keeps the first error, cancels its
\* context when it took one, and counts the goroutine as done.
Exit(i) ==
    /\ phase = "run"
    /\ pc[i] = "exiting"
    /\ pc' = [pc EXCEPT ![i] = "done"]
    /\ firstErr' = errOnce(unitErr[i])
    /\ gctxErr' = IF unitErr[i] # NoErr /\ firstErr = NoErr
                  THEN FirstOf(gctxErr, "Canceled") ELSE gctxErr
    /\ firstFail' = IF unitErr[i] # NoErr /\ firstFail = 0 THEN i ELSE firstFail
    /\ UNCHANGED <<funcs, timeout, phase, launched, res, err, unitErr, slot,
                   parentDone, tctxErr, retErr, preCancelled, late,
                   seen, calls, regs, lastT>>

\* GoResult, had Go reported a done context itself.
GoResult_CtxErr ==
    IF gctxErr # "none" THEN Err("cancelled", 0, gctxErr) ELSE firstErr

\* GoResult, had Go reported a timer that fired during the execution.
GoResult_TimerErr ==
    IF tctxErr = "DeadlineExceeded"
    THEN Err("cancelled", 0, "DeadlineExceeded") ELSE firstErr

\* What Go returns: the error of g.Wait().
GoResult == firstErr

\* Wait, had Go not deferred the cancel of its timeout context.
Wait_NoRelease ==
    /\ phase = "run"
    /\ launched = Len(funcs)
    /\ \A i \in Units : pc[i] = "done"
    /\ phase' = "returned"
    /\ retErr' = GoResult
    /\ gctxErr' = FirstOf(gctxErr, "Canceled")
    /\ UNCHANGED <<funcs, timeout, launched, pc, res, err, unitErr, slot,
                   parentDone, tctxErr, firstErr, hist>>

\* Wait, had it returned as soon as the group had an error.
Wait_Early ==
    /\ phase = "run"
    /\ launched = Len(funcs)
    /\ firstErr # NoErr \/ \A i \in Units : pc[i] = "done"
    /\ phase' = "returned"
    /\ retErr' = GoResult
    /\ gctxErr' = FirstOf(gctxErr, "Canceled")
    /\ tctxErr' = IF timeout # NoTimeout
                  THEN FirstOf(tctxErr, "Canceled") ELSE tctxErr
    /\ UNCHANGED <<funcs, timeout, launched, pc, res, err, unitErr, slot,
                   parentDone, firstErr, hist>>

\* g.Wait() returns once every goroutine is done and cancels the group's
\* context; Go returns its error and the deferred cancel releases the timer.
Wait ==
    /\ phase = "run"
    /\ launched = Len(funcs)
    /\ \A i \in Units : pc[i] = "done"
    /\ phase' = "returned"
    /\ retErr' = GoResult
    /\ gctxErr' = FirstOf(gctxErr, "Canceled")
    /\ tctxErr' = IF timeout # NoTimeout
                  THEN FirstOf(tctxErr, "Canceled") ELSE tctxErr
    /\ UNCHANGED <<funcs, timeout, launched, pc, res, err, unitErr, slot,
                   parentDone, firstErr, hist>>

Next ==
    \/ \E d \in Dests : Task(d)
    \/ \E d \in Durations : WithTimeout(d)
    \/ CancelParent
    \/ TimerFire
    \/ GoCall
    \/ asyncTask
    \/ \E i \in Units : FnCall(i)
    \/ \E i \in Units : \E r \in Results(i) : \E e \in Errors(i) :
           FnReturn(i, r, e)
    \/ \E l \in Locs : \E S \in SUBSET Units : Assign(S, l)
    \/ \E i \in Units : Exit(i)
    \/ Wait

Spec == Init /\ [][Next]_vars

\* The steps of the goroutine of unit i: it calls fn, fn returns, it assigns,
\* it returns to the group.
UnitStep(i) ==
    /\ i \in Units
    /\ \/ FnCall(i)
       \/ \E r \in Results(i) : \E e \in Errors(i) : FnReturn(i, r, e)
       \/ \E l \in Locs : \E S \in SUBSET Units : i \in S /\ Assign(S, l)
       \/ Exit(i)

\* The scheduler lets the caller of Go and every goroutine run, and every fn
\* returns; nothing is assumed of the timer and of the parent context.
FairSpec ==
    /\ Spec
    /\ WF_vars(asyncTask)
    /\ WF_vars(Wait)
    /\ \A i \in Locs : WF_vars(UnitStep(i))

----------------------------------------------------------------------------
(* Properties *)

Returned == phase = "returned"

Dest(i) == funcs[i].dest

\* The units of the execution: none before Go is called.
Ran == IF phase = "build" THEN {} ELSE Units

\* The unit has left its closure: its error is settled.
Settled(i) == pc[i] \in {"exiting", "done"}

\* Neither the caller nor the timer has ended the contexts of the execution.
NeverCancelled == ~parentDone /\ tctxErr # "DeadlineExceeded"

\* The value is of the type of variable l.
Fits(v, l) == v.type = LocType(l)

\* No other task has the destination of task i.
Unaliased(i) == \A j \in Units : j # i => Dest(j) # Dest(i)

\* Every operation returned a value and no error, into a valid pointer of its
\* own to a variable of a type that takes the value.
AllGood ==
    \A i \in Ran :
        /\ Dest(i).kind = "ptr"
        /\ Unaliased(i)
        /\ err[i] = NoErr
        /\ res[i] # NilVal
        /\ Fits(res[i], Dest(i).loc)

\* C1: when Go returns nil for a batch of operations that all return a value
\* and no error, into distinct valid pointers of a fitting type, every variable
\* holds the value of its own operation.
FanOutCorrect ==
    (Returned /\ retErr = NoErr /\ AllGood)
        => \A i \in Ran : slot[Dest(i).loc] = res[i]

FanOutWitness ==
    /\ Returned /\ retErr = NoErr /\ AllGood
    /\ Len(funcs) >= 2
    /\ Dest(1) = PtrTo(2)
    /\ slot[2] = res[1]

\* Go returned the error of the operation of task i, or an error wrapping it.
ReturnsOpErrOf(i) == retErr = err[i]

\* C2 as stated, read for a context that is never cancelled: whenever the
\* operation of a task returned an error, Go returns that very error.
EveryOpErrorReturned ==
    (Returned /\ NeverCancelled)
        => \A i \in Ran : err[i] # NoErr => ReturnsOpErrOf(i)

\* The result of unit i, had it reached assignResult, would be refused.
AssignFails(i) ==
    Dest(i) # NilIface /\ res[i] # NilVal /\ assignResult(Dest(i), res[i]) # ""

\* C2 as amended: when the operation of a task returned an error, Go returns
\* an error; it is that of the operation when no other operation returned an
\* error, no result is refused by assignResult and neither the caller nor the
\* timer ended the context.
OpErrorPropagated ==
    Returned =>
        \A i \in Ran : err[i] # NoErr =>
            /\ retErr # NoErr
            /\ ( /\ NeverCancelled
                 /\ \A j \in Units : j # i => err[j] = NoErr
                 /\ \A j \in Units : ~AssignFails(j) )
               => ReturnsOpErrOf(i)

OpErrorWitness ==
    /\ Returned /\ NeverCancelled
    /\ Len(funcs) >= 2
    /\ err[1] = NoErr /\ err[2] = OpErr(2)
    /\ unitErr[1].kind = "cancelled"
    /\ \A j \in Units : ~AssignFails(j)
    /\ retErr = OpErr(2)

\* A cancellation error wrapping the cause c.
IsCancellation(e, c) == e.kind = "cancelled" /\ e.detail = c

\* C3 as stated: Go called with a context that is already cancelled returns a
\* cancellation error wrapping the context's cause, for any batch.
PreCancelledAnyBatch ==
    (Returned /\ preCancelled) => IsCancellation(retErr, "Canceled")

\* C3 as amended: Go called on a batch of at least one task with a context
\* that is already cancelled returns a cancellation error wrapping the
\* context's cause.
PreCancelledFails ==
    (Returned /\ preCancelled /\ Len(funcs) > 0)
        => IsCancellation(retErr, "Canceled")

PreCancelledWitness ==
    /\ Returned /\ preCancelled
    /\ Len(funcs) >= 2
    /\ AllGood
    /\ timeout # NoTimeout
    /\ IsCancellation(retErr, "Canceled")

\* C4: with a timeout, a parent context that is never cancelled and a single
\* task whose operation returns after the timer fired, Go returns a
\* cancellation error wrapping DeadlineExceeded, whatever fn returned.
TimeoutPrecedence ==
    (Returned /\ Len(funcs) = 1 /\ timeout # NoTimeout /\ ~parentDone
        /\ late[1])
        => IsCancellation(retErr, "DeadlineExceeded")

TimeoutWitness ==
    /\ Returned /\ Len(funcs) = 1 /\ timeout > 0 /\ ~parentDone
    /\ late[1]
    /\ err[1] = OpErr(1)
    /\ res[1] # NilVal
    /\ IsCancellation(retErr, "DeadlineExceeded")

\* The error of a unit whose result assignResult refused for reason d.
AssignErr(i, d) == Err("assign", i, d)

\* C5 as stated: under a context that is never cancelled, every task whose
\* destination is a nil pointer makes Go return the NullDestination error.
NullDestAlwaysFails ==
    (Returned /\ NeverCancelled) =>
        \A i \in Ran : Dest(i) = NilPtr =>
            (retErr.kind = "assign" /\ retErr.detail = "NullDestination")

\* C5 as amended: under a context that is never cancelled, a task whose
\* destination is a nil pointer and whose operation returned a value that is
\* not nil fails with the NullDestination error, or with a cancellation error
\* when a sibling failed before its check; Go returns an error, and the
\* NullDestination error when the failure it returns is that of this unit.
NullDestFails ==
    NeverCancelled =>
        \A i \in Ran : (Dest(i) = NilPtr /\ res[i] # NilVal /\ Settled(i)) =>
            /\ \/ unitErr[i] = AssignErr(i, "NullDestination")
               \/ IsCancellation(unitErr[i], "Canceled")
            /\ Returned =>
                /\ retErr # NoErr
                /\ retErr.task = i => retErr = AssignErr(i, "NullDestination")

NullDestWitness ==
    /\ Returned /\ NeverCancelled
    /\ Len(funcs) >= 2
    /\ Dest(2) = NilPtr
    /\ res[2] = Val("int", 2)
    /\ unitErr[1] = NoErr
    /\ retErr = AssignErr(2, "NullDestination")

\* C6 as stated: under a context that is never cancelled, every task whose
\* destination is no pointer makes Go return the InvalidDestination error.
InvalidDestAlwaysFails ==
    (Returned /\ NeverCancelled) =>
        \A i \in Ran : Dest(i) = NonPtr =>
            (retErr.kind = "assign" /\ retErr.detail = "InvalidDestination")

\* C6 as amended: under a context that is never cancelled, a task whose
\* destination is no pointer and whose operation returned a value that is not
\* nil fails with the InvalidDestination error, or with a cancellation error
\* when a sibling failed before its check; Go returns an error, and the
\* InvalidDestination error when the failure it returns is that of this unit.
InvalidDestFails ==
    NeverCancelled =>
        \A i \in Ran : (Dest(i) = NonPtr /\ res[i] # NilVal /\ Settled(i)) =>
            /\ \/ unitErr[i] = AssignErr(i, "InvalidDestination")
               \/ IsCancellation(unitErr[i], "Canceled")
            /\ Returned =>
                /\ retErr # NoErr
                /\ retErr.task = i
                       => retErr = AssignErr(i, "InvalidDestination")

InvalidDestWitness ==
    /\ Returned /\ NeverCancelled
    /\ Len(funcs) >= 2
    /\ Dest(1) = NonPtr
    /\ res[1] = Val("int", 1)
    /\ err[1] = OpErr(1)
    /\ unitErr[2] = NoErr
    /\ retErr = AssignErr(1, "InvalidDestination")

\* The operation of task i returned a value its valid pointer does not take.
Mismatched(i) ==
    /\ Dest(i).kind = "ptr"
    /\ res[i] # NilVal
    /\ ~Fits(res[i], Dest(i).loc)

\* The variable is as it was before the execution.
Untouched(l) == slot[l] = Zero(LocType(l))

\* C7 as stated, read for a context that is never cancelled: a unit whose
\* value does not fit its valid pointer fails with the TypeMismatch error, Go
\* returns an error and the variable is as before.
TypeMismatchAlways ==
    NeverCancelled =>
        \A i \in Ran : (Mismatched(i) /\ Settled(i)) =>
            /\ unitErr[i] = AssignErr(i, "TypeMismatch")
            /\ Returned => retErr # NoErr
            /\ Untouched(Dest(i).loc)

\* C7 as amended: a unit whose value does not fit its valid pointer fails,
\* with the TypeMismatch error when its check finds the context not cancelled
\* and with a cancellation error otherwise; Go returns an error; and the
\* variable is as before unless another task has the same destination.
TypeMismatchFails ==
    \A i \in Ran : (Mismatched(i) /\ Settled(i)) =>
        /\ \/ unitErr[i] = AssignErr(i, "TypeMismatch")
           \/ unitErr[i].kind = "cancelled"
        /\ Returned => retErr # NoErr
        /\ Unaliased(i) => Untouched(Dest(i).loc)

TypeMismatchWitness ==
    /\ Returned
    /\ Len(funcs) >= 2
    /\ Dest(1) = PtrTo(1) /\ res[1] = Val("string", 1) /\ Unaliased(1)
    /\ unitErr[2] = NoErr
    /\ retErr = AssignErr(1, "TypeMismatch")
    /\ Untouched(1)

\* The operation of task i returned (nil, nil).
NilResult(i) == res[i] = NilVal /\ err[i] = NoErr

\* C8: under a context that is never cancelled, a unit whose operation
\* returned (nil, nil) writes nothing (its variable is as before unless another
\* task has the same destination, and no variable holds nil), its failure is
\* never the one the group keeps (it returns nil, or a cancellation error after
\* a sibling failed), and a batch of such tasks only makes Go return nil.
NilResultTolerated ==
    NeverCancelled =>
        /\ \A i \in Ran : (Settled(i) /\ NilResult(i)) =>
              /\ unitErr[i] = NoErr \/ IsCancellation(unitErr[i], "Canceled")
              /\ firstErr.task # i
              /\ (Dest(i).kind = "ptr" /\ Unaliased(i))
                     => Untouched(Dest(i).loc)
        /\ \A l \in Locs : slot[l] # NilVal
        /\ (Returned /\ \A i \in Ran : NilResult(i)) => retErr = NoErr

NilResultWitness ==
    /\ Returned /\ NeverCancelled
    /\ Len(funcs) >= 2
    /\ \A i \in Ran : NilResult(i)
    /\ Dest(1) = PtrTo(1) /\ Dest(2) = NilPtr
    /\ Untouched(1)
    /\ retErr = NoErr

\* C9: Go on a batch without tasks launches no unit and returns nil, whatever
\* the state of the parent context and the timeout.
EmptyBatchSucceeds ==
    Len(funcs) = 0 =>
        /\ launched = 0
        /\ Returned => retErr = NoErr

EmptyBatchWitness ==
    /\ Returned
    /\ Len(funcs) = 0
    /\ preCancelled
    /\ timeout = 0
    /\ retErr = NoErr

\* C10: Go returns nil exactly when no unit failed; otherwise it returns the
\* failure of the unit whose failed closure finished first, whatever the units
\* that fail later return.
FirstErrorWins ==
    Returned =>
        /\ retErr = NoErr <=> \A i \in Ran : unitErr[i] = NoErr
        /\ firstFail # 0 => retErr = unitErr[firstFail]

FirstErrorWitness ==
    /\ Returned
    /\ Len(funcs) >= 2
    /\ firstFail = 2
    /\ unitErr[2].kind = "op"
    /\ unitErr[1].kind \in {"op", "cancelled"}
    /\ retErr = unitErr[2]

\* C11: Go launches one unit per registered task and returns only once every
\* one of them is done, so that none still runs its operation or is about to
\* write when Go has returned, also after a failure or a cancellation.
ForkJoin ==
    /\ phase # "build" => launched <= Len(funcs)
    /\ Returned =>
          /\ launched = Len(funcs)
          /\ \A i \in Ran : pc[i] = "done"

ForkJoinWitness ==
    /\ Returned
    /\ Len(funcs) >= 2
    /\ launched = 2
    /\ parentDone
    /\ firstFail = 1
    /\ unitErr[1].kind = "op"
    /\ unitErr[2].kind = "cancelled"
    /\ \A i \in Ran : pc[i] = "done"

\* Unit i has bound its value: it passed its check and assignResult assigned.
Wrote(i) ==
    /\ Settled(i)
    /\ Dest(i).kind = "ptr"
    /\ res[i] # NilVal
    /\ unitErr[i].kind \notin {"cancelled", "assign"}

\* C12 as stated: once a unit has bound its value, its variable holds that
\* value in every later state of the execution.
BoundSlotKept ==
    \A i \in Ran : Wrote(i) => slot[Dest(i).loc] = res[i]

\* C12 as amended: once a unit has bound its value to a variable no other task
\* has as its destination, the variable holds that value in every later state
\* of the execution, also when a sibling fails and Go returns its error.
NoRollback ==
    \A i \in Ran : (Wrote(i) /\ Unaliased(i)) => slot[Dest(i).loc] = res[i]

NoRollbackWitness ==
    /\ Returned
    /\ Len(funcs) >= 2
    /\ Wrote(1) /\ Unaliased(1) /\ unitErr[1] = NoErr
    /\ firstFail = 2
    /\ retErr = OpErr(2)
    /\ slot[Dest(1).loc] = res[1]

\* C13: with a timeout, a parent context that is never cancelled and a single
\* task whose operation returned a fitting value and no error and whose check
\* ran before the timer fired, Go returns nil and the variable holds the value.
TimeoutNonInterference ==
    (Returned /\ Len(funcs) = 1 /\ timeout # NoTimeout /\ ~parentDone
        /\ ~late[1]
        /\ Dest(1).kind = "ptr" /\ res[1] # NilVal /\ err[1] = NoErr
        /\ Fits(res[1], Dest(1).loc))
        => (retErr = NoErr /\ slot[Dest(1).loc] = res[1])

TimeoutSuccessWitness ==
    /\ Returned /\ Len(funcs) = 1 /\ timeout > 0 /\ ~parentDone
    /\ ~late[1]
    /\ Dest(1) = PtrTo(1) /\ res[1] = Val("int", 1) /\ err[1] = NoErr
    /\ tctxErr = "DeadlineExceeded"
    /\ retErr = NoErr
    /\ slot[1] = res[1]

\* The check of unit i found the group's context not cancelled.
PassedCheck(i) == Settled(i) /\ unitErr[i].kind # "cancelled"

\* C14 as stated: a unit whose check found the context not cancelled and whose
\* operation returned an error fails with exactly that error, whatever the
\* value and the destination.
OpErrorAlwaysVerbatim ==
    \A i \in Ran : (PassedCheck(i) /\ err[i] # NoErr) => unitErr[i] = err[i]

\* C14 as amended: a unit whose check found the context not cancelled and
\* whose operation returned an error fails with exactly that error, unless the
\* operation also returned a value that assignResult refuses for its
\* destination: then it fails with the result-assignment error.
OpErrorVerbatim ==
    \A i \in Ran : (PassedCheck(i) /\ err[i] # NoErr) =>
        unitErr[i] = IF AssignFails(i)
                     THEN AssignErr(i, assignResult(Dest(i), res[i]))
                     ELSE err[i]

OpErrorVerbatimWitness ==
    /\ Returned
    /\ Len(funcs) >= 1
    /\ Dest(1) = PtrTo(1) /\ res[1] = Val("int", 1) /\ err[1] = OpErr(1)
    /\ unitErr[1] = OpErr(1)
    /\ slot[1] = res[1]
    /\ retErr = OpErr(1)

\* The select of unit i has run.
Checked(i) == pc[i] \in {"assigning", "exiting", "done"}

\* C15: a unit whose check finds the group's context cancelled, by the
\* timeout, the parent or a sibling's failure, fails with the cancellation
\* error wrapping the context's error and writes nothing, whatever its
\* operation returned; with a parent cancelled before Go no variable is
\* written at all.
CancellationBeatsResult ==
    /\ \A i \in Ran : (Checked(i) /\ seen[i] # "none") =>
          /\ pc[i] # "assigning"
          /\ unitErr[i] = Err("cancelled", i, seen[i])
          /\ \A l \in Locs : slot[l].id # i
    /\ (phase # "build" /\ preCancelled) => \A l \in Locs : Untouched(l)

CancellationBeatsResultWitness ==
    /\ Returned
    /\ Len(funcs) >= 2
    /\ ~parentDone /\ timeout = NoTimeout
    /\ firstFail = 2
    /\ seen[1] = "Canceled"
    /\ Dest(1) = PtrTo(1) /\ res[1] = Val("int", 1) /\ err[1] = NoErr
    /\ unitErr[1] = Err("cancelled", 1, "Canceled")
    /\ Untouched(1)

\* C16: a cancellation error kept by the group, and so one returned by Go,
\* wraps the error of a context that was done because the parent was cancelled
\* or the timer fired; the cancellation a sibling's failure causes is never
\* the error kept.
CancellationHasCause ==
    /\ firstErr.kind = "cancelled" =>
          \/ firstErr.detail = "Canceled" /\ parentDone
          \/ firstErr.detail = "DeadlineExceeded"
                /\ timeout # NoTimeout /\ tctxErr = "DeadlineExceeded"
    /\ (Returned /\ retErr.kind = "cancelled") =>
          /\ retErr = firstErr
          /\ parentDone \/ tctxErr = "DeadlineExceeded"

CancellationHasCauseWitness ==
    /\ Returned
    /\ Len(funcs) >= 2
    /\ parentDone /\ ~preCancelled /\ timeout = NoTimeout
    /\ retErr = Err("cancelled", 1, "Canceled")
    /\ unitErr[2] = OpErr(2)

\* C17: when the caller of Go and every goroutine keep being scheduled and
\* every operation returns, a call of Go returns, and the error it returned,
\* nil or one error, does not change afterwards.
Terminates ==
    /\ (phase = "run") ~> Returned
    /\ [][Returned => retErr' = retErr]_vars

TerminatesWitness ==
    /\ Returned
    /\ Len(funcs) >= 2
    /\ unitErr[1].kind = "assign"
    /\ unitErr[2].kind = "cancelled"
    /\ retErr = unitErr[1]

\* C18: in one call of Go the operation of every registered task is called
\* once: never twice, and by the time Go returns never zero times, also when
\* the context was cancelled before the unit started.
ConsumedOnce ==
    /\ phase # "build" => Len(calls) = Len(funcs)
    /\ \A i \in Ran : calls[i] <= 1
    /\ \A i \in Ran : Checked(i) => calls[i] = 1
    /\ Returned => \A i \in Ran : calls[i] = 1

ConsumedOnceWitness ==
    /\ Returned
    /\ Len(funcs) >= 2
    /\ preCancelled
    /\ \A i \in Ran : calls[i] = 1 /\ unitErr[i].kind = "cancelled"

\* C19: with a timeout, the context Go derived is cancelled, or its timer has
\* fired, by the time Go returns, on every path; without one no timeout
\* context exists and the group's context is a child of the parent context.
TimeoutReleased ==
    /\ (Returned /\ timeout # NoTimeout) => tctxErr # "none"
    /\ timeout = NoTimeout => tctxErr = "none"
    /\ phase # "build" =>
          /\ parentDone => gctxErr # "none"
          /\ tctxErr # "none" => gctxErr # "none"

TimeoutReleasedWitness ==
    /\ Returned
    /\ timeout = 1
    /\ ~parentDone
    /\ tctxErr = "Canceled"
    /\ retErr.kind = "op"

\* C20: before Go, the task list is the pairs registered by the calls of Task,
\* in call order, whatever their dest; the timeout is the argument of the last
\* call of WithTimeout, absent without one; Task accepts any dest.
BuilderSemantics ==
    /\ Len(funcs) = Len(regs)
    /\ \A k \in 1 .. Len(regs) : funcs[k].dest = regs[k] /\ funcs[k].fun = k
    /\ timeout = lastT
    /\ (phase = "build" /\ Len(funcs) < MaxTasks) =>
          \A d \in Dests : ENABLED Task(d)

BuilderWitness ==
    /\ phase = "build"
    /\ regs = <<NonPtr, NilPtr>>
    /\ funcs = <<asyncHolder(NonPtr, 1), asyncHolder(NilPtr, 2)>>
    /\ lastT = 0
    /\ timeout = 0

====
